---- MODULE Spec2Model ----
(***************************************************************************)
(* Model of the magnet-lab field-mapping program: the grid sweep of        *)
(* map_xy.py, which calls LineScan.run() (hp_line_scan.py) once per cell   *)
(* of the secondary axis and retries it on MissedTriggerError and          *)
(* EncoderException; run() drives a McLennan motion axis                   *)
(* (motor_controller.py), the ADLINK encoder card (adlink_card.py) and the *)
(* Metrolab Hall probe (hall_probe.py).                                    *)
(*                                                                         *)
(* Positions are fixed-point numbers: an integer p stands for p / PosDen   *)
(* millimetres, and a comparator value t for t / PosDen motor steps.       *)
(* Counters of the devices (command position, actual position, encoder)    *)
(* are whole steps.                                                        *)
(***************************************************************************)
EXTENDS Integers, Sequences, FiniteSets, TLC

\* ------------------------------------------------------------------ bounds

\* Number of step intervals of the primary-axis scan range.
NumIntervals == 2

\* Number of cells of the secondary axis (len(ax2_values)).
NumCells == 2

\* Cap on the per-cell retry counter.
MaxRetries == 6

\* Largest start and stop, in half millimetres, of the ranges arange is
\* applied to on its own.
MaxHalf == 4

\* --------------------------------------------------------- fixed-point

\* Resolution of positions: units per millimetre (0.1 micrometre).
PosDen == 10 * 1000

\* One millimetre.
MM == PosDen

Abs(x) == IF x >= 0 THEN x ELSE -x

\* floor(n / d) for d # 0.
FloorDiv(n, d) == IF d > 0 THEN n \div d ELSE (-n) \div (-d)

\* ceil(n / d) for d # 0.
CeilDiv(n, d) == -FloorDiv(-n, d)

\* Python int(n / d) for d > 0: truncation toward zero.
Trunc(n, d) == IF n >= 0 THEN n \div d ELSE -((-n) \div d)

\* np.copysign(1, x): the sign of x as +1 or -1; a zero difference of two
\* finite floats is +0.0, whose sign is +1.
copysign(x) == IF x >= 0 THEN 1 ELSE -1

\* ------------------------------------------------------- motor_controller

\* The three Hall-probe axes of MotorController.
Axes == {"x", "y", "z"}

\* steps per mm
scale_factor(a) == IF a = "z" THEN 1000 ELSE 2000

\* mm/s
max_speed(a) == CASE a = "x" -> 2 [] a = "y" -> 6 [] a = "z" -> 30

\* motor controller version of the axis
version(a) == IF a = "z" THEN "PM304" ELSE "PM341"

\* Axis.echo: every version but SCL echoes the command.
echo(a) == version(a) # "SCL"

\* A position of n whole steps as Axis.get_position returns it
\* (value / scale_factor), in position units.
StepsToPos(a, n) == (n * PosDen) \div scale_factor(a)

\* The step count Axis.move sends for a position: int(position * scale_factor).
MoveSteps(a, position) == Trunc(position * scale_factor(a), PosDen)

\* The replies the controller can give to a position query.
PosReplies == {"good", "bad_echo", "bad_prefix", "non_numeric"}

\* Axis.get_position: TRUE when the reply raises ValueError (talk's echo check
\* or the prefix check).
GetPosRaises(reply) == reply \in {"bad_echo", "bad_prefix"}

\* Axis.get_position: the position returned for a reply that does not raise;
\* a non-numeric answer is read as 0.
GetPosValue(a, reply, counter) ==
    IF reply = "non_numeric" THEN 0 ELSE StepsToPos(a, counter)

\* Python's None, and a value v that is not None.
None == << >>
Some(v) == << v >>

\* Axis.setSpeed: the speed commanded (None means max_speed).
SetSpeedValue(a, speed) == IF speed = None THEN max_speed(a) * PosDen ELSE speed[1]

\* A setSpeed that accepts every speed.
SetSpeedOutOfRange_never(a, speed) == FALSE

\* Axis.setSpeed: OutOfRangeException when the speed exceeds max_speed.
SetSpeedOutOfRange(a, speed) == speed # None /\ speed[1] > max_speed(a) * PosDen

\* Python round(n / d) for d > 0: to the nearest integer, a half to the even
\* one.
RoundHalfEven(n, d) ==
    LET q == FloorDiv(n, d)
        r == n - q * d
    IN IF 2 * r < d THEN q
       ELSE IF 2 * r > d THEN q + 1
       ELSE IF q % 2 = 0 THEN q ELSE q + 1

\* Axis.setSpeed: the parameter of the 'sv' command, speed * scale_factor as
\* Axis.talk rounds it.
SetSpeedCommand(a, speed) ==
    RoundHalfEven(SetSpeedValue(a, speed) * scale_factor(a), PosDen)

\* Axis.setSpeed(speed): the exception raised, and the parameter sent to the
\* controller or None when nothing is sent.
SetSpeedCall(a, speed) ==
    IF SetSpeedOutOfRange(a, speed)
    THEN [raises |-> "OutOfRangeException", sent |-> None]
    ELSE [raises |-> "none", sent |-> Some(SetSpeedCommand(a, speed))]

\* ---------------------------------------------------------- hp_line_scan

\* The 0.002 pad arange adds to stop.
Pad == (2 * PosDen) \div 1000

\* len(np.arange(start, stop + 0.002, step)): the number of k >= 0 with
\* start + k * step before stop + 0.002 in the direction of step.
arangeLen(start, stop, step) ==
    LET n == CeilDiv(stop + Pad - start, step) IN IF n > 0 THEN n ELSE 0

\* arange(start, stop, step): the positions start + k * step.
arange(start, stop, step) ==
    [k \in 1..arangeLen(start, stop, step) |-> start + (k - 1) * step]

\* min_trigger_time = 0.2 s, as a divisor: step / 0.2 = step * 5.
TriggerRate == 5

\* Every axis scanned on the fly.
on_the_fly_all(axis_name) == TRUE

\* LineScan.__init__: on-the-fly for x and z, point by point for y.
on_the_fly(axis_name) == axis_name \in {"x", "z"}

\* LineScan.__init__: the encoder channel used, whatever the axis name.
enc_channel(axis_name) == "z"

\* LineScan.__init__: self.enc_axis, an axis of a new AdlinkCard for an
\* on-the-fly scan and None otherwise.
enc_axis(axis_name) ==
    IF on_the_fly(axis_name) THEN << enc_channel(axis_name) >> ELSE << >>

\* The step per trigger time without the limit of the axis.
MinSpeed_uncapped(step, rate, maxspeed) == step * rate

\* min(step / min_trigger_time, max_speed), for a min_trigger_time of 1 / rate
\* seconds.
MinSpeed(step, rate, maxspeed) ==
    LET s == step * rate IN IF s < maxspeed THEN s ELSE maxspeed

\* LineScan.__init__: speed = min(step / min_trigger_time, max_speed).
ScanSpeed(axis_name, step) ==
    MinSpeed(step, TriggerRate, max_speed(axis_name) * PosDen)

\* scanOnTheFly: the overshoot of the continuous move, 0.1 mm.
Overshoot == PosDen \div 10

\* scanOnTheFly: direction_sign = copysign(1, stop - start).
direction_sign(start, stop) == copysign(stop - start)

\* A continuous move that ends at stop.
OtfTarget_nominal(start, stop) == stop

\* scanOnTheFly: the target of the continuous move,
\* self.stop + direction_sign * 0.1.
OtfTarget(start, stop) == stop + direction_sign(start, stop) * Overshoot

\* A scan loop without the missed-trigger check.
Missed_never(trigger_at, pos_now, dsign) == FALSE

\* The check of the missed trigger with its operands exchanged.
Missed_exchanged(trigger_at, pos_now, dsign) ==
    copysign(pos_now * PosDen - trigger_at) # dsign

\* scanOnTheFly: the missed-trigger test,
\* copysign(1, trigger_at - pos_now) != direction_sign, with trigger_at in
\* 1/PosDen steps and pos_now in whole steps.
Missed(trigger_at, pos_now, dsign) == copysign(trigger_at - pos_now * PosDen) # dsign

\* The positions a scan loop visits after the first: pos_values[1:].
Rest(pos) == IF Len(pos) = 0 THEN << >> ELSE Tail(pos)

\* ----------------------------------------------------------- adlink_card

\* Return codes of the encoder driver: success, a code of err_codes
\* ("axis INT wait failed"), and a non-zero code err_codes does not list.
WaitFailed == -10220

\* err_codes (its keys that matter here).
ListedCodes == {-10212, WaitFailed}

DriverCodes == {0, WaitFailed, 1}

\* CheckSuccess: "none" for a zero result, else the exception that leaves the
\* call: EncoderException, or KeyError when err_codes[result] fails.
CheckSuccess(result) ==
    IF result = 0 THEN "none"
    ELSE IF result \in ListedCodes THEN "EncoderException" ELSE "KeyError"

\* Axis.setTriggerPosition: the comparator data sent, int(data).
ComparatorData(trigger_at) == Trunc(trigger_at, PosDen)

\* ---------------------------------------------------------------- map_xy

\* The threshold of the retry prompt: retries % 5.
PromptEvery == 5

\* An except clause that catches every exception type.
Caught_all(e) == TRUE

\* The exception types the retry loop catches.
Caught(e) == e \in {"MissedTriggerError", "EncoderException"}

\* A prompt at every failure from the threshold on.
PromptDue_from(r) == r >= PromptEvery

\* The retry loop asks the operator when retries is a multiple of 5.
PromptDue(r) == r % PromptEvery = 0

\* str.upper() on the answers the operator may type.
Upper(s) == CASE s = "y" -> "Y" [] s = "n" -> "N" [] OTHER -> s

\* What the operator may type at the prompt.
Answers == {"", "y", "Y", "n", "N"}

\* The retry loop re-raises when the upper-cased answer is '' or 'Y'.
Reraises(answer) == Upper(answer) \in {"", "Y"}

\* The ranges (ax1_start, ax1_stop, ax1_step) between lo and hi: ascending,
\* descending with a negative step, and descending with a positive step.
Ranges(lo, hi) == { <<lo, hi, MM>>, <<hi, lo, -MM>>, <<hi, lo, MM>> }

\* The scan configurations of the sweep (axis1, ax1_start, ax1_stop, ax1_step):
\* along the on-the-fly axis from 1 mm, along the point-by-point axis from 0.
Configs ==
    { [axis |-> "z", start |-> r[1], stop |-> r[2], step |-> r[3]] :
        r \in Ranges(MM, (NumIntervals + 1) * MM) }
    \cup
    { [axis |-> "y", start |-> r[1], stop |-> r[2], step |-> r[3]] :
        r \in Ranges(0, NumIntervals * MM) }

\* ax2_values: the secondary-axis position of each cell.
ax2_values == [k \in 1..NumCells |-> k * (MM \div 2)]

\* ------------------------------------------------------------------ state

VARIABLES
    cfg,          \* axis1, ax1_start, ax1_stop, ax1_step of the sweep
    pc,           \* the statement the program is at
    cont,         \* where Axis.move(wait=True) returns to
    mv,           \* Axis.move's axis, final_pos and tolerance while it polls
    serial,       \* Axis.talk's reply loop: "idle", "waiting" or "ready"
    cell,         \* i + 1 of the sweep loop
    retries,      \* the retry counter of the cell
    exc,          \* the exception caught or propagated, "none" without one
    idx,          \* index into pos_values[1:] of the scan loops (1-based)
    pos_now,      \* scanOnTheFly's reading of the encoder
    mc_encoder_pos, \* run's reading of the motor controller's actual position
    field_values, \* LineScan.field_values
    exported,     \* the rows written to the files, per cell
    tgt,          \* per axis: the target of the last move command (steps)
    cmd,          \* per axis: the controller's command position (steps)
    act,          \* per axis: the controller's actual position (steps)
    slew,         \* per axis: the slew speed set (position units per second)
    enc,          \* the encoder card's counter (steps)
    cmp,          \* the comparator: None, or Some(data) once programmed
    irq,          \* TRUE when the comparator interrupt has fired
    hpArmed,      \* the probe is initiated and takes triggers
    hpCount,      \* the probe's trigger count
    hpBuf,        \* the samples the probe has buffered
    nTrig,        \* history: assert_trigger calls since armTrigger in this run
    prompts,      \* history: operator prompts in this cell
    answered,     \* history: the answer to the prompt of this handler pass
    afterFail,    \* history: the first device command after run() last failed
    ops,          \* history: the device commands of the current run(), in order
    fails,        \* history: the attempts of run() that failed on this cell
    call,         \* a function applied on its own: its name, input and output
    fetched       \* history: this run has fetched the buffer

vars == << cfg, pc, cont, mv, serial, cell, retries, exc, idx, pos_now, mc_encoder_pos,
           field_values, exported, tgt, cmd, act, slew, enc, cmp, irq,
           hpArmed, hpCount, hpBuf, nTrig, prompts, answered, afterFail,
           ops, fails, call,
           fetched >>

axisVars == << tgt, cmd, act, slew >>
encVars == << enc, cmp, irq >>
hpVars == << hpArmed, hpCount, hpBuf >>
dataVars == << field_values, exported >>
histVars == << nTrig, prompts, answered, fetched >>
loopVars == << cell, retries >>
locals == << idx, pos_now, mc_encoder_pos >>

NoMove == [axis |-> "none", final |-> 0, tol |-> 0]

axis1 == cfg.axis
axis2 == IF cfg.axis = "x" THEN "y" ELSE "x"

\* LineScan.__init__: pos_values, n_steps, speed.
pos_values == arange(cfg.start, cfg.stop, cfg.step)
n_steps == Len(pos_values)
speed == ScanSpeed(cfg.axis, cfg.step)

\* A loop that takes the last position as the target of every turn.
trigger_at_last ==
    Rest(pos_values)[Len(Rest(pos_values))] * scale_factor(axis1)

\* scanOnTheFly: trigger_at = pos * scale_factor for the loop's position.
trigger_at == Rest(pos_values)[idx] * scale_factor(axis1)

\* A sample the probe captures at a trigger: k is the index (1-based) of the
\* position the program triggers for, fresh says it was captured in the
\* current run().
Sample(k) == [k |-> k, fresh |-> TRUE]
Stale(samples) == [i \in 1..Len(samples) |-> [samples[i] EXCEPT !.fresh = FALSE]]

\* np.zeros((len(pos_values), 3))
Zeros == [i \in 1..n_steps |-> [k |-> 0, fresh |-> FALSE]]

\* No function is applied on its own.
NoCall == [fn |-> "none", in |-> << >>, out |-> << >>, done |-> TRUE]

\* The devices and the program after construction, before the sweep loop.
Constructed ==
    /\ pc = "cell_move"
    /\ cont = "none"
    /\ mv = NoMove
    /\ serial = "idle"
    /\ cell = 1
    /\ retries = 0
    /\ exc = "none"
    /\ idx = 0
    /\ pos_now = 0
    /\ mc_encoder_pos = 0
    /\ field_values = Zeros
    /\ exported = << >>
    /\ tgt = [a \in Axes |-> 0]
    /\ cmd = [a \in Axes |-> 0]
    /\ act = [a \in Axes |-> 0]
    /\ slew = [a \in Axes |-> max_speed(a) * PosDen]
    /\ enc = 0
    /\ cmp = None
    /\ irq = FALSE
    /\ hpArmed = FALSE
    /\ hpCount = 1
    /\ hpBuf = << >>
    /\ nTrig = 0
    /\ prompts = 0
    /\ answered = "none"
    /\ afterFail = "idle"
    /\ fetched = FALSE
    /\ ops = << >>
    /\ fails = 0

Init ==
    /\ cfg \in Configs
    /\ Constructed
    /\ call = NoCall

\* ------------------------------------------------------------ control flow

\* The statements of LineScan.run() and of the scans it calls.
RunPcs == { "try_run", "run_abort", "run_source", "run_count", "run_arm",
            "run_trig0", "run_setspeed", "run_getpos", "run_preload",
            "otf_move", "otf_read", "otf_check", "otf_arm", "otf_wait",
            "otf_trig", "otf_restore", "pbp_move", "pbp_trig", "run_fetch" }

\* The statements of scanOnTheFly after the continuous move is commanded.
OtfPcs == { "otf_read", "otf_check", "otf_arm", "otf_wait", "otf_trig",
            "otf_restore" }

\* The statements that exchange a command with the motor controller.
TalkSites == { "cell_move", "mv_poll", "try_run", "run_setspeed", "run_getpos",
               "otf_move", "otf_restore", "pbp_move", "handler_stop" }

\* The program is inside the try block of the retry loop.
InRun == pc \in RunPcs \/ (pc = "mv_poll" /\ cont \in RunPcs)

\* A device command c with argument v is issued; inside run() it joins the
\* commands of the run, which start anew with the homing move.
IssueArg(c, v) ==
    /\ afterFail' = IF afterFail = "pending" THEN c ELSE afterFail
    /\ ops' = IF pc = "try_run" THEN << <<c, v>> >>
              ELSE IF InRun THEN Append(ops, <<c, v>>)
              ELSE ops
    /\ UNCHANGED fails

Issue(c) == IssueArg(c, 0)

\* An exception e is raised by the statement whose device command, if any,
\* is c: inside the try block a caught type enters the except clause, any
\* other exception ends the program; the frames of run() are unwound and
\* their locals are gone.
Raise(e, c) ==
    /\ exc' = e
    /\ idx' = 0 /\ pos_now' = 0 /\ mc_encoder_pos' = 0
    /\ pc' = IF InRun /\ Caught(e) THEN "handler_stop" ELSE "crashed"
    /\ cont' = "none"
    /\ mv' = NoMove
    /\ serial' = "idle"
    /\ afterFail' = IF InRun THEN "pending"
                    ELSE IF afterFail = "pending" /\ c # "none" THEN c
                    ELSE afterFail
    /\ ops' = << >>
    /\ fails' = IF InRun THEN fails + 1 ELSE fails

\* Axis.talk's reply loop has its reply (or has not started to wait).
Replied == serial # "waiting"

\* ---------------------------------------------------------------- Axis

\* Axis.move(position, wait, tolerance): get_position, then the 'ma' command
\* with check_ok; with wait the caller polls at mv_poll and resumes at next,
\* otherwise it resumes at next at once. The echo of 'ma' may be wrong after
\* the controller has taken the command.
Move(a, position, tol, wait, next, c) ==
    /\ Replied
    /\ \/ /\ tgt' = [tgt EXCEPT ![a] = MoveSteps(a, position)]
          /\ IF wait
             THEN /\ pc' = "mv_poll"
                  /\ cont' = next
                  /\ mv' = [axis |-> a, final |-> position, tol |-> tol]
             ELSE /\ pc' = next
                  /\ UNCHANGED << cont, mv >>
          /\ serial' = "idle"
          /\ Issue(c)
          /\ UNCHANGED << exc, locals >>
       \/ /\ UNCHANGED tgt
          /\ Raise("ValueError", c)
       \/ /\ tgt' = [tgt EXCEPT ![a] = MoveSteps(a, position)]
          /\ Raise("ValueError", c)
    /\ UNCHANGED << cmd, act, slew >>

\* Axis.move's wait loop: get_position() is within tolerance of final_pos.
MoveReached ==
    /\ pc = "mv_poll"
    /\ Replied
    /\ \E r \in PosReplies :
          /\ ~GetPosRaises(r)
          /\ Abs(GetPosValue(mv.axis, r, cmd[mv.axis]) - mv.final) <= mv.tol
    /\ pc' = cont
    /\ cont' = "none"
    /\ mv' = NoMove
    /\ serial' = "idle"
    /\ UNCHANGED << cfg, call, exc, loopVars, locals, dataVars, axisVars, encVars,
                    hpVars, histVars, afterFail, ops, fails >>

\* Axis.move's wait loop: the position is not within tolerance and the
\* timeout has elapsed.
MoveTimedOut ==
    /\ pc = "mv_poll"
    /\ Replied
    /\ \E r \in PosReplies :
          /\ ~GetPosRaises(r)
          /\ Abs(GetPosValue(mv.axis, r, cmd[mv.axis]) - mv.final) > mv.tol
    /\ Raise("TimeoutError", "none")
    /\ UNCHANGED << cfg, call, loopVars, dataVars, axisVars, encVars, hpVars, histVars >>

\* Axis.move's wait loop: get_position raises on a bad echo or prefix.
MovePollError ==
    /\ pc = "mv_poll"
    /\ Replied
    /\ Raise("ValueError", "none")
    /\ UNCHANGED << cfg, call, loopVars, dataVars, axisVars, encVars, hpVars, histVars >>

\* Axis.talk: the reply is not complete yet, the loop sleeps and reads again.
TalkStall ==
    /\ pc \in TalkSites
    /\ serial = "idle"
    /\ serial' = "waiting"
    /\ UNCHANGED << cfg, call, pc, cont, mv, exc, loopVars, locals, dataVars,
                    axisVars, encVars, hpVars, histVars, afterFail, ops, fails >>

\* Axis.talk: one more turn of the reply loop, nothing was read.
TalkPoll ==
    /\ serial = "waiting"
    /\ UNCHANGED vars

\* The controller completes its reply.
SerialReply ==
    /\ serial = "waiting"
    /\ serial' = "ready"
    /\ UNCHANGED << cfg, call, pc, cont, mv, exc, loopVars, locals, dataVars,
                    axisVars, encVars, hpVars, histVars, afterFail, ops, fails >>

\* ------------------------------------------------------- the sweep loop

\* map_xy: mc.axis[axis2].move(y, wait=True)
CellMove ==
    /\ pc = "cell_move"
    /\ Move(axis2, ax2_values[cell], MM \div 100, TRUE, "cell_init", "axis2.move")
    /\ UNCHANGED << cfg, call, loopVars, dataVars, encVars, hpVars, histVars >>

\* A cell that starts with the retry counter of the cell before.
CellInit_keep ==
    /\ pc = "cell_init"
    /\ prompts' = 0
    /\ pc' = "try_run"
    /\ UNCHANGED << cfg, call, cont, mv, serial, exc, cell, retries, idx, pos_now,
                    mc_encoder_pos, dataVars, axisVars, encVars, hpVars,
                    nTrig, answered, fetched, afterFail, ops >>
    /\ fails' = 0

\* map_xy: retries = 0; ok = False
CellInit ==
    /\ pc = "cell_init"
    /\ retries' = 0
    /\ prompts' = 0
    /\ pc' = "try_run"
    /\ UNCHANGED << cfg, call, cont, mv, serial, exc, cell, idx, pos_now,
                    mc_encoder_pos, dataVars, axisVars, encVars, hpVars,
                    nTrig, answered, fetched, afterFail, ops >>
    /\ fails' = 0

\* map_xy: the except clause's mc.axis[axis1].stop(), a talk('st') whose echo
\* is checked; the locals of the run() that failed are gone.
HandlerStop ==
    /\ pc = "handler_stop"
    /\ Replied
    /\ \/ /\ pc' = "handler_count"
          /\ serial' = "idle"
          /\ Issue("axis1.stop")
          /\ UNCHANGED << exc, cont, mv, locals >>
       \/ Raise("ValueError", "axis1.stop")
    /\ tgt' = [tgt EXCEPT ![axis1] = act[axis1]]
    /\ cmd' = [cmd EXCEPT ![axis1] = act[axis1]]
    /\ nTrig' = 0
    /\ UNCHANGED << cfg, call, loopVars, dataVars, act, slew, encVars, hpVars,
                    prompts, answered, fetched >>

\* map_xy: retries += 1; print(e); at a multiple of 5 the operator is asked,
\* and the exception is raised again when the answer is '' or 'Y'.
HandlerCount ==
    /\ pc = "handler_count"
    /\ retries < MaxRetries
    /\ retries' = retries + 1
    /\ IF PromptDue(retries')
       THEN \E a \in Answers :
               /\ answered' = a
               /\ prompts' = prompts + 1
               /\ pc' = IF Reraises(a) THEN "crashed" ELSE "try_run"
               /\ exc' = IF Reraises(a) THEN exc ELSE "none"
       ELSE /\ answered' = "none"
            /\ pc' = "try_run"
            /\ exc' = "none"
            /\ UNCHANGED prompts
    /\ UNCHANGED << cfg, call, cont, mv, serial, cell, idx, pos_now, mc_encoder_pos,
                    dataVars, axisVars, encVars, hpVars, nTrig, fetched,
                    afterFail, ops, fails >>

\* map_xy: the rows written for the cell, one per pair of
\* zip(pos_values, field_values): the secondary-axis position y and the field.
CellRows ==
    [i \in 1..(IF Len(field_values) < n_steps THEN Len(field_values) ELSE n_steps)
       |-> [y |-> ax2_values[cell], field |-> field_values[i].k]]

\* A record step that writes the files anew with the data of the cell alone.
RecordData_overwrite ==
    /\ pc = "record"
    /\ exported' = << CellRows >>
    /\ IF cell < NumCells
       THEN pc' = "cell_move" /\ cell' = cell + 1
       ELSE pc' = "done" /\ UNCHANGED cell
    /\ fetched' = FALSE
    /\ UNCHANGED << cfg, call, cont, mv, serial, exc, retries, idx, pos_now,
                    mc_encoder_pos, field_values, axisVars, encVars, hpVars,
                    nTrig, prompts, answered, afterFail, ops, fails >>

\* map_xy: record the data of the cell in the files and go to the next cell;
\* the run() that fetched is over.
RecordData ==
    /\ pc = "record"
    /\ exported' = Append(exported, CellRows)
    /\ IF cell < NumCells
       THEN pc' = "cell_move" /\ cell' = cell + 1
       ELSE pc' = "done" /\ UNCHANGED cell
    /\ fetched' = FALSE
    /\ UNCHANGED << cfg, call, cont, mv, serial, exc, retries, idx, pos_now,
                    mc_encoder_pos, field_values, axisVars, encVars, hpVars,
                    nTrig, prompts, answered, afterFail, ops, fails >>

\* ------------------------------------------------------------ the probe

\* The largest count getField accepts (its assert).
MaxCount == 2048

\* MetrolabProbe.send of a command that takes effect through apply; a non-zero
\* status of the write raises CommunicationError.
Send(c, next) ==
    \/ /\ pc' = next
       /\ Issue(c)
       /\ UNCHANGED << exc, cont, mv, serial, locals >>
    \/ Raise("CommunicationError", c)

\* hp.probe.assert_trigger() for position index k: an initiated probe with
\* room left buffers one sample; the call may fail in the VISA layer. The
\* scan loop goes on with index i.
Trigger(k, next, i) ==
    \/ /\ hpBuf' = IF hpArmed /\ Len(hpBuf) < hpCount
                   THEN Append(hpBuf, Sample(k)) ELSE hpBuf
       /\ hpArmed' = (hpArmed /\ Len(hpBuf) + 1 < hpCount)
       /\ nTrig' = nTrig + 1
       /\ pc' = next
       /\ idx' = i
       /\ Issue("hp.assert_trigger")
       /\ UNCHANGED << exc, cont, mv, serial, pos_now, mc_encoder_pos >>
    \/ /\ Raise("VisaIOError", "hp.assert_trigger")
       /\ UNCHANGED << hpBuf, hpArmed, nTrig >>

\* Axis.setSpeed(speed): OutOfRangeException above max_speed, else the 'sv'
\* command with check_ok.
SetSpeed(a, spd, next) ==
    /\ Replied
    /\ IF SetSpeedOutOfRange(a, spd)
       THEN /\ Raise("OutOfRangeException", "none")
            /\ UNCHANGED slew
       ELSE \/ /\ slew' = [slew EXCEPT ![a] = SetSpeedValue(a, spd)]
               /\ pc' = next
               /\ serial' = "idle"
               /\ Issue("axis1.setSpeed")
               /\ UNCHANGED << exc, cont, mv, locals >>
            \/ /\ UNCHANGED slew
               /\ Raise("ValueError", "axis1.setSpeed")
            \/ /\ slew' = [slew EXCEPT ![a] = SetSpeedValue(a, spd)]
               /\ Raise("ValueError", "axis1.setSpeed")
    /\ UNCHANGED << tgt, cmd, act >>

\* -------------------------------------------------------- LineScan.run

\* A scan loop that ends after its first position.
AfterTrigger_once(again, out) == out

\* Where a scan loop goes after the trigger of index idx.
AfterTrigger(again, out) == IF idx < Len(Rest(pos_values)) THEN again ELSE out

\* run: self.axis.move(self.start, wait=True, tolerance=0.001); the samples of
\* earlier runs are no longer of the current run.
RunHome ==
    /\ pc = "try_run"
    /\ Move(axis1, cfg.start, MM \div 1000, TRUE, "run_abort", "axis1.move")
    /\ field_values' = Stale(field_values)
    /\ hpBuf' = Stale(hpBuf)
    /\ nTrig' = 0
    /\ fetched' = FALSE
    /\ answered' = "none"
    /\ UNCHANGED << cfg, call, cell, retries, exported,
                    encVars, hpArmed, hpCount, prompts >>

\* A run() that arms right after abortTrigger.
RunAbort_skip ==
    /\ pc = "run_abort"
    /\ \/ Send("hp.abortTrigger", "run_arm") /\ pc' = "run_arm" /\ hpArmed' = FALSE
       \/ Raise("CommunicationError", "hp.abortTrigger") /\ UNCHANGED hpArmed
    /\ UNCHANGED << cfg, call, loopVars, dataVars, axisVars, encVars, hpCount, hpBuf,
                    histVars >>

\* run: self.hp.abortTrigger()
RunAbort ==
    /\ pc = "run_abort"
    /\ \/ Send("hp.abortTrigger", "run_source") /\ pc' = "run_source" /\ hpArmed' = FALSE
       \/ Raise("CommunicationError", "hp.abortTrigger") /\ UNCHANGED hpArmed
    /\ UNCHANGED << cfg, call, loopVars, dataVars, axisVars, encVars, hpCount, hpBuf,
                    histVars >>

\* run: self.hp.setTriggerSource(hall_probe.TriggerSource.BUS)
RunSource ==
    /\ pc = "run_source"
    /\ Send("hp.setTriggerSource", "run_count")
    /\ UNCHANGED << cfg, call, loopVars, dataVars, axisVars, encVars, hpVars, histVars >>

\* run: self.hp.setTriggerCount(self.n_steps); InputError unless count > 0.
RunCount ==
    /\ pc = "run_count"
    /\ IF n_steps > 0
       THEN \/ Send("hp.setTriggerCount", "run_arm") /\ pc' = "run_arm" /\ hpCount' = n_steps
            \/ Raise("CommunicationError", "hp.setTriggerCount") /\ UNCHANGED hpCount
       ELSE Raise("InputError", "none") /\ UNCHANGED hpCount
    /\ UNCHANGED << cfg, call, loopVars, dataVars, axisVars, encVars, hpArmed, hpBuf,
                    histVars >>

\* An armTrigger after which the probe keeps the samples it holds.
RunArm_keep ==
    /\ pc = "run_arm"
    /\ \/ /\ Send("hp.armTrigger", "run_trig0") /\ pc' = "run_trig0"
          /\ hpArmed' = TRUE
          /\ nTrig' = 0
          /\ UNCHANGED hpBuf
       \/ /\ Raise("CommunicationError", "hp.armTrigger")
          /\ UNCHANGED << hpArmed, hpBuf, nTrig >>
    /\ UNCHANGED << cfg, call, loopVars, dataVars, axisVars, encVars, hpCount,
                    prompts, answered, fetched >>

\* run: self.hp.armTrigger(); the probe starts a new acquisition.
RunArm ==
    /\ pc = "run_arm"
    /\ \/ /\ Send("hp.armTrigger", "run_trig0") /\ pc' = "run_trig0"
          /\ hpArmed' = TRUE
          /\ hpBuf' = << >>
          /\ nTrig' = 0
       \/ /\ Raise("CommunicationError", "hp.armTrigger")
          /\ UNCHANGED << hpArmed, hpBuf, nTrig >>
    /\ UNCHANGED << cfg, call, loopVars, dataVars, axisVars, encVars, hpCount,
                    prompts, answered, fetched >>

\* run: self.hp.probe.assert_trigger(), the first field reading; then the
\* branch on self.on_the_fly.
RunFirstTrigger ==
    /\ pc = "run_trig0"
    /\ Trigger(1, IF on_the_fly(axis1) THEN "run_setspeed"
                  ELSE IF Len(Rest(pos_values)) > 0 THEN "pbp_move" ELSE "run_fetch",
               1)
    /\ UNCHANGED << cfg, call, cell, retries, dataVars,
                    axisVars, encVars, hpCount, prompts, answered, fetched >>

\* run: self.axis.setSpeed(self.speed)
RunSetSpeed ==
    /\ pc = "run_setspeed"
    /\ SetSpeed(axis1, Some(speed), "run_getpos")
    /\ UNCHANGED << cfg, call, loopVars, dataVars, encVars, hpVars, histVars >>

\* run: mc_encoder_pos = self.axis.get_position(set_value=False) * scale_factor
RunGetPos ==
    /\ pc = "run_getpos"
    /\ Replied
    /\ \E r \in PosReplies :
          IF GetPosRaises(r)
          THEN Raise("ValueError", "axis1.get_position")
          ELSE /\ mc_encoder_pos' =
                     (GetPosValue(axis1, r, act[axis1]) * scale_factor(axis1)) \div PosDen
               /\ pc' = "run_preload"
               /\ serial' = "idle"
               /\ Issue("axis1.get_position")
               /\ UNCHANGED << exc, cont, mv, idx, pos_now >>
    /\ UNCHANGED << cfg, call, cell, retries, dataVars, axisVars,
                    encVars, hpVars, histVars >>

\* run: self.enc_axis.setPosition(mc_encoder_pos)
RunPreload ==
    /\ pc = "run_preload"
    /\ \E code \in DriverCodes :
          IF CheckSuccess(code) = "none"
          THEN /\ enc' = mc_encoder_pos
               /\ pc' = "otf_move"
               /\ Issue("enc.setPosition")
               /\ UNCHANGED << exc, cont, mv, serial, locals >>
          ELSE /\ Raise(CheckSuccess(code), "enc.setPosition")
               /\ UNCHANGED enc
    /\ UNCHANGED << cfg, call, loopVars, dataVars, axisVars, cmp, irq, hpVars, histVars >>

\* scanOnTheFly: self.axis.move(self.stop + direction_sign * 0.1)
OtfMove ==
    /\ pc = "otf_move"
    /\ Move(axis1, OtfTarget(cfg.start, cfg.stop), MM \div 100, FALSE,
            IF Len(Rest(pos_values)) > 0 THEN "otf_read" ELSE "otf_restore",
            "axis1.move")
    /\ UNCHANGED << cfg, call, loopVars, dataVars, encVars, hpVars, histVars >>

\* scanOnTheFly: pos_now = self.enc_axis.getPosition()
OtfRead ==
    /\ pc = "otf_read"
    /\ \E code \in DriverCodes :
          IF CheckSuccess(code) = "none"
          THEN /\ pos_now' = enc
               /\ pc' = "otf_check"
               /\ Issue("enc.getPosition")
               /\ UNCHANGED << exc, cont, mv, serial, idx, mc_encoder_pos >>
          ELSE Raise(CheckSuccess(code), "enc.getPosition")
    /\ UNCHANGED << cfg, call, cell, retries, dataVars, axisVars,
                    encVars, hpVars, histVars >>

\* scanOnTheFly: raise MissedTriggerError when the trigger is already passed.
OtfCheck ==
    /\ pc = "otf_check"
    /\ IF Missed(trigger_at, pos_now, direction_sign(cfg.start, cfg.stop))
       THEN Raise("MissedTriggerError", "none")
       ELSE /\ pc' = "otf_arm"
            /\ UNCHANGED << exc, cont, mv, serial, afterFail, ops, fails, locals >>
    /\ UNCHANGED << cfg, call, loopVars, dataVars, axisVars, encVars, hpVars, histVars >>

\* waitForPosition: setTriggerPosition(FEEDBACK_COUNTER,
\* DATA_EQ_SOURCE_COUNTER_DIRECTION_INDEPENDENT, position); a comparator
\* programmed with the counter's present value may or may not fire.
OtfArm ==
    /\ pc = "otf_arm"
    /\ \E code \in DriverCodes :
          IF CheckSuccess(code) = "none"
          THEN /\ cmp' = Some(ComparatorData(trigger_at))
               /\ irq' \in (IF enc = ComparatorData(trigger_at) THEN BOOLEAN ELSE {FALSE})
               /\ pc' = "otf_wait"
               /\ IssueArg("enc.setTriggerPosition", ComparatorData(trigger_at))
               /\ UNCHANGED << exc, cont, mv, serial, locals >>
          ELSE /\ Raise(CheckSuccess(code), "enc.setTriggerPosition")
               /\ UNCHANGED << cmp, irq >>
    /\ UNCHANGED << cfg, call, loopVars, dataVars, axisVars, enc, hpVars, histVars >>

\* waitForPosition: waitForInterrupt returns, the comparator has fired.
OtfWaitReturn ==
    /\ pc = "otf_wait"
    /\ irq
    /\ irq' = FALSE
    /\ pc' = "otf_trig"
    /\ Issue("enc.waitForInterrupt")
    /\ UNCHANGED << cfg, call, exc, cont, mv, serial, loopVars, locals, dataVars,
                    axisVars, enc, cmp, hpVars, histVars >>

\* waitForPosition: the comparator has not fired and waitForInterrupt ends
\* with a non-zero code (the timeout's, or another).
OtfWaitFail ==
    /\ pc = "otf_wait"
    /\ ~irq
    /\ \E code \in DriverCodes \ {0} : Raise(CheckSuccess(code), "enc.waitForInterrupt")
    /\ UNCHANGED << cfg, call, loopVars, dataVars, axisVars, encVars, hpVars, histVars >>

\* scanOnTheFly: self.hp.probe.assert_trigger(), then the next position.
OtfTrigger ==
    /\ pc = "otf_trig"
    /\ Trigger(idx + 1, AfterTrigger("otf_read", "otf_restore"),
               IF idx < Len(Rest(pos_values)) THEN idx + 1 ELSE idx)
    /\ UNCHANGED << cfg, call, cell, retries, dataVars,
                    axisVars, encVars, hpCount, prompts, answered, fetched >>

\* A scanOnTheFly that returns after its last trigger.
OtfRestore_skip ==
    /\ pc = "otf_restore"
    /\ pc' = "run_fetch"
    /\ UNCHANGED << cfg, call, cont, mv, serial, exc, loopVars, locals, dataVars,
                    axisVars, encVars, hpVars, histVars, afterFail, ops, fails >>

\* scanOnTheFly: self.axis.setSpeed(), back to max speed.
OtfRestore ==
    /\ pc = "otf_restore"
    /\ SetSpeed(axis1, None, "run_fetch")
    /\ UNCHANGED << cfg, call, loopVars, dataVars, encVars, hpVars, histVars >>

\* A point-by-point scan that does not wait for its moves.
PbpMove_nowait ==
    /\ pc = "pbp_move"
    /\ Move(axis1, Rest(pos_values)[idx], MM \div 100, FALSE, "pbp_trig", "axis1.move")
    /\ UNCHANGED << cfg, call, loopVars, dataVars, encVars, hpVars, histVars >>

\* scanPointByPoint: self.axis.move(pos, wait=True)
PbpMove ==
    /\ pc = "pbp_move"
    /\ Move(axis1, Rest(pos_values)[idx], MM \div 100, TRUE, "pbp_trig", "axis1.move")
    /\ UNCHANGED << cfg, call, loopVars, dataVars, encVars, hpVars, histVars >>

\* scanPointByPoint: self.hp.probe.assert_trigger(), then the next position.
PbpTrigger ==
    /\ pc = "pbp_trig"
    /\ Trigger(idx + 1, AfterTrigger("pbp_move", "run_fetch"),
               IF idx < Len(Rest(pos_values)) THEN idx + 1 ELSE idx)
    /\ UNCHANGED << cfg, call, cell, retries, dataVars,
                    axisVars, encVars, hpCount, prompts, answered, fetched >>

\* A fetch that returns the newest sample first.
Fetch_newest(count) ==
    [i \in 1..(IF count < Len(hpBuf) THEN count ELSE Len(hpBuf)) |->
        hpBuf[Len(hpBuf) + 1 - i]]

\* getField(count, fetch=True): the first count samples of the buffer, oldest
\* first.
Fetch(count) == SubSeq(hpBuf, 1, IF count < Len(hpBuf) THEN count ELSE Len(hpBuf))

\* run: self.field_values = self.hp.getField(count=self.n_steps, fetch=True);
\* run() returns and its locals are gone.
RunFetch ==
    /\ pc = "run_fetch"
    /\ \/ /\ n_steps >= 1 /\ n_steps <= MaxCount
          /\ field_values' = Fetch(n_steps)
          /\ fetched' = TRUE
          /\ pc' = "record"
          /\ Issue("hp.getField")
          /\ idx' = 0 /\ pos_now' = 0 /\ mc_encoder_pos' = 0
          /\ UNCHANGED << exc, cont, mv, serial >>
       \/ /\ Raise(IF n_steps >= 1 /\ n_steps <= MaxCount
                   THEN "VisaIOError" ELSE "AssertionError", "hp.getField")
          /\ UNCHANGED << field_values, fetched >>
    /\ UNCHANGED << cfg, call, cell, retries, exported, axisVars, encVars, hpVars, nTrig,
                    prompts, answered >>

\* ------------------------------------------------------------- the stage

\* The step counts the primary axis is seen at while it travels: 0 and every
\* position of the scan (and the target of its move).
Points(a) ==
    IF a = axis1
    THEN {0} \cup { MoveSteps(a, pos_values[k]) : k \in 1..n_steps }
    ELSE {}

\* The points from the actual position (excluded) to the target (included).
Ahead(a) ==
    { p \in Points(a) \cup {tgt[a]} :
        \/ act[a] < p /\ p <= tgt[a]
        \/ tgt[a] <= p /\ p < act[a] }

\* The comparator's value lies on the way of the counter from e (excluded)
\* to f (included).
Crosses(e, f) ==
    /\ cmp # None
    /\ \/ e < cmp[1] /\ cmp[1] <= f
       \/ f <= cmp[1] /\ cmp[1] < e

\* The statements at which the program observes the stage: the polls of
\* Axis.move, the position queries, and the comparator wait. The travel of
\* the stage between two observations is taken at the later one.
MotionPcs == { "mv_poll", "run_getpos", "otf_read", "otf_arm", "otf_wait" }

\* The axis travels toward its target; the encoder card counts the z axis,
\* and a waitForInterrupt in progress sees the comparator fire.
AxisAdvance(a) ==
    /\ pc \in MotionPcs
    /\ \E p \in Ahead(a) :
          /\ act' = [act EXCEPT ![a] = p]
          /\ IF a = "z"
             THEN /\ enc' = enc + (p - act[a])
                  /\ irq' = (irq \/ (pc = "otf_wait" /\ Crosses(enc, enc + (p - act[a]))))
             ELSE UNCHANGED << enc, irq >>
    /\ UNCHANGED << cfg, call, pc, cont, mv, serial, exc, loopVars, locals, dataVars,
                    tgt, cmd, slew, cmp, hpVars, histVars, afterFail, ops, fails >>

\* The controller's command position arrives at the target of the move, the
\* primary stage on its last leg to it, the secondary stage arrived.
CmdArrive(a) ==
    /\ pc = "mv_poll"
    /\ cmd[a] # tgt[a]
    /\ Ahead(a) \subseteq {tgt[a]}
    /\ a # axis1 => act[a] = tgt[a]
    /\ cmd' = [cmd EXCEPT ![a] = tgt[a]]
    /\ UNCHANGED << cfg, call, pc, cont, mv, serial, exc, loopVars, locals, dataVars,
                    tgt, act, slew, encVars, hpVars, histVars, afterFail, ops, fails >>

\* -------------------------------------------------------- specification

\* The steps of the program.
Program ==
    \/ CellMove \/ CellInit \/ HandlerStop \/ HandlerCount \/ RecordData
    \/ MoveReached \/ MoveTimedOut \/ MovePollError
    \/ RunHome \/ RunAbort \/ RunSource \/ RunCount \/ RunArm \/ RunFirstTrigger
    \/ RunSetSpeed \/ RunGetPos \/ RunPreload
    \/ OtfMove \/ OtfRead \/ OtfCheck \/ OtfArm \/ OtfWaitReturn \/ OtfWaitFail
    \/ OtfTrigger \/ OtfRestore
    \/ PbpMove \/ PbpTrigger \/ RunFetch

\* The steps of the devices.
Devices ==
    \/ TalkStall \/ TalkPoll \/ SerialReply
    \/ \E a \in Axes : AxisAdvance(a)
    \/ \E a \in Axes : CmdArrive(a)

Next == Program \/ Devices

Spec == Init /\ [][Next]_vars

\* The program always takes its next step; the devices owe nothing.
FairSpec == Spec /\ WF_vars(Program)

\* ------------------------------------------- functions applied on their own

\* Every variable but call.
progVars == << cfg, pc, cont, mv, serial, cell, retries, exc, idx, pos_now,
               mc_encoder_pos, field_values, exported, tgt, cmd, act, slew,
               enc, cmp, irq, hpArmed, hpCount, hpBuf, nTrig, prompts,
               answered, afterFail, ops, fails, fetched >>

HalfMM == MM \div 2

\* The (start, stop, step) arange is applied to: starts and stops on the half
\* millimetre, steps of 0.5, 1 and 0.3 mm in either direction, and the range
\* of hp_line_scan's own main block, LineScan('x', -10, 0, 0.5).
ArangeInputs ==
    { <<a * HalfMM, b * HalfMM, st>> :
        a \in -MaxHalf..MaxHalf, b \in -MaxHalf..MaxHalf,
        st \in {HalfMM, -HalfMM, MM, -MM, (3 * MM) \div 10} }
    \cup { <<-10 * MM, 0, HalfMM>> }

\* The steps of a scan: 0.5, 1 and 0.3 mm in either direction.
StepInputs == {HalfMM, -HalfMM, MM, -MM, (3 * MM) \div 10, (-3 * MM) \div 10}

\* The (axis, step, 1 / min_trigger_time) the scan speed is computed for:
\* min_trigger_time of 1, 0.5, 0.2 and 0.1 s.
SpeedInputs ==
    { <<a, st, r>> : a \in Axes, st \in StepInputs, r \in {1, 2, TriggerRate, 10} }

\* The (axis, speed) setSpeed is called with: None, and speeds from a
\* fraction of a step per second to above the max_speed of every axis.
SetSpeedInputs ==
    { <<a, sp>> : a \in Axes,
        sp \in {None} \cup
              { Some(v) : v \in {1, 5, 15, HalfMM, 2 * MM, 2 * MM + 1, 5 * HalfMM,
                                 6 * MM, 6 * MM + 1, 30 * MM, 31 * MM, -5 * MM} } }

\* Half a motor step, as a comparator value.
HalfStep == PosDen \div 2

\* The (direction_sign, trigger_at, pos_now) of a turn of scanOnTheFly's loop:
\* targets on the half step and a least unit beside it, of either sign, and
\* encoder readings in whole steps around them.
ArmInputs ==
    { <<d, h * HalfStep + e, p>> :
        d \in {1, -1}, h \in -MaxHalf..MaxHalf, e \in {-1, 0, 1},
        p \in -(MaxHalf \div 2 + 1)..(MaxHalf \div 2 + 1) }

\* The (start, stop, step) of the on-the-fly scans whose continuous move is
\* looked at: those of arange, and a stop 0.001 mm below start with a step of
\* 0.0005 mm.
OvershootInputs == ArangeInputs \cup { <<0, -(MM \div 1000), MM \div 2000>> }

\* The axis names a LineScan is constructed for.
ConstructInputs == { <<a>> : a \in Axes }

\* The (axis, position) Axis.move is called with: positions on the half
\* millimetre and a fraction of a step beside it, of either sign.
MoveInputs ==
    { <<a, h * HalfMM + e>> :
        a \in Axes, h \in -MaxHalf..MaxHalf, e \in {-7, -5, -3, 0, 3, 5, 7} }

\* The calls to make.
Calls ==
    [fn : {"arange"}, in : ArangeInputs, out : {<< >>}, done : {FALSE}]
    \cup [fn : {"speed"}, in : SpeedInputs, out : {<< >>}, done : {FALSE}]
    \cup [fn : {"setSpeed"}, in : SetSpeedInputs, out : {<< >>}, done : {FALSE}]
    \cup [fn : {"arm"}, in : ArmInputs, out : {<< >>}, done : {FALSE}]
    \cup [fn : {"overshoot"}, in : OvershootInputs, out : {<< >>}, done : {FALSE}]
    \cup [fn : {"construct"}, in : ConstructInputs, out : {<< >>}, done : {FALSE}]
    \cup [fn : {"move"}, in : MoveInputs, out : {<< >>}, done : {FALSE}]

PureInit ==
    /\ cfg = [axis |-> "z", start |-> MM, stop |-> (NumIntervals + 1) * MM, step |-> MM]
    /\ Constructed
    /\ call \in Calls

\* arange(start, stop, step) is evaluated.
ApplyArange ==
    /\ call.fn = "arange"
    /\ ~call.done
    /\ call' = [call EXCEPT !.out = arange(call.in[1], call.in[2], call.in[3]),
                            !.done = TRUE]
    /\ UNCHANGED progVars

\* LineScan.__init__ computes the scan speed.
ApplySpeed ==
    /\ call.fn = "speed"
    /\ ~call.done
    /\ call' = [call EXCEPT
                  !.out = MinSpeed(call.in[2], call.in[3], max_speed(call.in[1]) * PosDen),
                  !.done = TRUE]
    /\ UNCHANGED progVars

\* Axis.setSpeed(speed) is called.
ApplySetSpeed ==
    /\ call.fn = "setSpeed"
    /\ ~call.done
    /\ call' = [call EXCEPT !.out = SetSpeedCall(call.in[1], call.in[2]),
                            !.done = TRUE]
    /\ UNCHANGED progVars

\* One turn of scanOnTheFly's loop from the check on: whether
\* MissedTriggerError is raised, and the data setTriggerPosition would send.
ApplyArm ==
    /\ call.fn = "arm"
    /\ ~call.done
    /\ call' = [call EXCEPT
                  !.out = [missed |-> Missed(call.in[2], call.in[3], call.in[1]),
                           data |-> ComparatorData(call.in[2])],
                  !.done = TRUE]
    /\ UNCHANGED progVars

\* scanOnTheFly for a LineScan(start, stop, step): the target of its
\* continuous move and the positions its loop goes through.
ApplyOvershoot ==
    /\ call.fn = "overshoot"
    /\ ~call.done
    /\ call' = [call EXCEPT
                  !.out = [target |-> OtfTarget(call.in[1], call.in[2]),
                           rest |-> Rest(arange(call.in[1], call.in[2], call.in[3]))],
                  !.done = TRUE]
    /\ UNCHANGED progVars

\* LineScan.__init__(axis_name, ...): the encoder channel it takes.
ApplyConstruct ==
    /\ call.fn = "construct"
    /\ ~call.done
    /\ call' = [call EXCEPT !.out = enc_axis(call.in[1]), !.done = TRUE]
    /\ UNCHANGED progVars

\* Axis.move(position): the step count of the 'ma' command; talk sends an
\* int as it is.
ApplyMove ==
    /\ call.fn = "move"
    /\ ~call.done
    /\ call' = [call EXCEPT !.out = MoveSteps(call.in[1], call.in[2]), !.done = TRUE]
    /\ UNCHANGED progVars

PureNext ==
    \/ ApplyArange \/ ApplySpeed \/ ApplySetSpeed \/ ApplyArm \/ ApplyOvershoot
    \/ ApplyConstruct \/ ApplyMove

PureSpec == PureInit /\ [][PureNext]_vars

\* ----------------------------------------------------------- properties

\* C1: in scanOnTheFly, when the encoder position read for a target lies
\* beyond the target in the direction of travel (the sign of target minus
\* encoder position differs from the scan direction sign), MissedTriggerError
\* is raised before the comparator is programmed and the interrupt wait is
\* entered for that target, and no trigger is asserted for it.
C1_MissedBeforeWait ==
    [][ LET d == Rest(pos_values)[idx] * scale_factor(axis1) - pos_now * PosDen
            differs == IF cfg.stop >= cfg.start THEN d < 0 ELSE d >= 0
        IN (pc = "otf_check" /\ differs) =>
              /\ exc' = "MissedTriggerError"
              /\ pc' \notin {"otf_arm", "otf_wait", "otf_trig"}
              /\ UNCHANGED << cmp, irq, nTrig, hpBuf >> ]_vars

\* C1: MissedTriggerError was raised at the first target of an on-the-fly
\* scan: one trigger asserted (that of the start position), the comparator
\* never programmed.
C1_Witness ==
    /\ pc = "handler_stop"
    /\ exc = "MissedTriggerError"
    /\ nTrig = 1
    /\ cmp = None

\* C2: a run() at the buffered fetch, or past it, has asserted exactly n_steps
\* triggers since it armed the probe, in either mode; a run() still under way
\* or ended by an exception the sweep caught has not fetched.
C2_TriggersBeforeFetch ==
    /\ (pc = "run_fetch" \/ fetched) => nTrig = Len(arange(cfg.start, cfg.stop, cfg.step))
    /\ (InRun \/ pc \in {"handler_stop", "handler_count"}) => ~fetched
    /\ fetched => pc = "record"

\* C2: an on-the-fly run() has fetched after a trigger at every position, on
\* an attempt that followed a failed one.
C2_Witness ==
    /\ pc = "record"
    /\ fetched
    /\ on_the_fly(axis1)
    /\ nTrig = NumIntervals + 1
    /\ retries > 0

\* C3: after run() has returned normally, field_values has as many rows as
\* pos_values, and row i is the sample of the i-th trigger of that run.
C3_RowsAligned ==
    pc = "record" =>
        /\ Len(field_values) = Len(pos_values)
        /\ \A i \in 1..Len(pos_values) : field_values[i] = [k |-> i, fresh |-> TRUE]

\* C3: run() has returned normally for the last cell with a row for every
\* position, after a failed attempt that had left samples in the probe.
C3_Witness ==
    /\ pc = "record"
    /\ cell = NumCells
    /\ retries > 0
    /\ Len(field_values) = NumIntervals + 1

\* C4: at the retry prompt an answer of '' or 'Y' (in either case) leads to
\* another attempt of run() on the same cell, and any other answer ends the
\* sweep with the last error.
C4_AnswerAsStated ==
    [][ (pc = "handler_count" /\ answered' # "none") =>
           IF answered' \in {"", "y", "Y"}
           THEN pc' = "try_run" /\ cell' = cell
           ELSE pc' = "crashed" /\ exc' = exc ]_vars

\* C5: the operator has been asked once for every full five failures of the
\* cell, and a step asks exactly when the failure count reaches a positive
\* multiple of five.
C5_PromptAtMultiples ==
    [][ /\ prompts' = retries' \div 5
        /\ (prompts' = prompts + 1) <=>
              (retries' = retries + 1 /\ retries' % 5 = 0) ]_vars

\* C5: six failures with MissedTriggerError or EncoderException on a cell and
\* one prompt, the sixth failure counted.
C5_Witness ==
    /\ retries = 6
    /\ prompts = 1
    /\ pc = "try_run"

\* C6: after run() has failed with MissedTriggerError or EncoderException the
\* first device command is stop() on the primary axis, then the retry counter
\* goes up by one, and run() is invoked again for the same cell unless the
\* operator was asked.
C6_RecoveryAsStated ==
    [][ /\ (pc = "handler_stop" /\ pc' # pc) =>
              (pc' = "handler_count" /\ afterFail' = "axis1.stop")
        /\ (pc = "handler_count" /\ pc' # pc) =>
              /\ retries' = retries + 1
              /\ cell' = cell
              /\ pc' = "try_run" \/ answered' # "none" ]_vars

\* C7: a TimeoutError, ValueError, CommunicationError or EncoderException
\* raised inside run() enters the retry handling of the sweep.
C7_FailuresRetriedAsStated ==
    [][ (InRun /\ exc = "none" /\
         exc' \in {"TimeoutError", "ValueError", "CommunicationError",
                   "EncoderException"}) =>
           pc' = "handler_stop" ]_vars

\* C8: the except clause does not catch InputError or OutOfRangeException;
\* when run() raises one of them the sweep ends there, the retry counter and
\* the axis commands untouched, and nothing follows.
C8_ConfigErrorsEnd ==
    [][ /\ ~Caught("InputError") /\ ~Caught("OutOfRangeException")
        /\ (InRun /\ exc' \in {"InputError", "OutOfRangeException"}) =>
              /\ pc' = "crashed"
              /\ UNCHANGED << retries, cell, tgt, cmd, prompts >>
        /\ (pc = "crashed") => pc' = "crashed" ]_vars

\* C8: run() has raised InputError on the first attempt of the first cell and
\* the sweep has ended with no device command after it.
C8_Witness ==
    /\ pc = "crashed"
    /\ exc = "InputError"
    /\ retries = 0
    /\ afterFail = "pending"

\* C9: an error raised in scanOnTheFly after the continuous move was
\* commanded leaves run() with the axis commanded to stop where it is.
C9_EngineStopsAsStated ==
    [][ (pc \in OtfPcs /\ exc = "none" /\
         exc' \in {"MissedTriggerError", "EncoderException"}) =>
           tgt'[axis1] = act'[axis1] ]_vars

\* C10: every run() that has started returns or raises.
C10_RunEndsAsStated == InRun ~> ~InRun

\* C11: for every (start, stop, step) whose step points from start toward
\* stop, arange yields floor((stop - start) / step) + 1 positions that begin
\* at start, are spaced by step, are monotonic in the direction of stop, and
\* end at stop when stop is a whole number of steps from start; (-10, 0, 0.5)
\* yields 21 positions from -10 to 0.
C11_ArangeAsStated ==
    LET start == call.in[1]
        stop == call.in[2]
        step == call.in[3]
        out == call.out
    IN (call.fn = "arange" /\ call.done /\ (stop - start) * step >= 0) =>
          /\ Len(out) = FloorDiv(stop - start, step) + 1
          /\ out[1] = start
          /\ \A k \in 1..(Len(out) - 1) :
                /\ out[k + 1] - out[k] = step
                /\ stop > start => out[k + 1] > out[k]
                /\ stop < start => out[k + 1] < out[k]
          /\ (stop - start) % Abs(step) = 0 => out[Len(out)] = stop
          /\ call.in = <<-10 * MM, 0, HalfMM>> =>
                (Len(out) = 21 /\ out[1] = -10 * MM /\ out[21] = 0)

\* C12: the scan speed is the smaller of step / min_trigger_time and the
\* axis's max_speed; it never exceeds max_speed, setSpeed does not raise
\* OutOfRangeException for it, and for step 0.5, min_trigger_time 0.2 and
\* max_speed 30 it is 2.5.
C12_SpeedWithinMax ==
    LET a == call.in[1]
        quotient == call.in[2] * call.in[3]
        m == max_speed(a) * PosDen
    IN (call.fn = "speed" /\ call.done) =>
          /\ call.out \in {quotient, m}
          /\ call.out <= quotient
          /\ call.out <= m
          /\ ~SetSpeedOutOfRange(a, Some(call.out))
          /\ call.in = <<"z", HalfMM, 5>> => call.out = (5 * MM) \div 2

\* C12: the speed of a scan whose step per trigger time is above the axis's
\* max_speed has been computed, and is max_speed.
C12_Witness ==
    /\ call.fn = "speed"
    /\ call.done
    /\ call.in[2] * call.in[3] > max_speed(call.in[1]) * PosDen
    /\ call.out = max_speed(call.in[1]) * PosDen

\* C13: a scan along y never uses the encoder card: none is constructed, no
\* encoder operation is among the commands of run() or follows its failure,
\* and the card's counter, comparator and interrupt stay as they were; an
\* on-the-fly scan that has returned has programmed the comparator and
\* waited for its interrupt once per position after the first, n_steps - 1
\* times, in order and each time with that position's step count.
C13_EncoderUse ==
    LET EncOps == {"enc.setPosition", "enc.getPosition",
                   "enc.setTriggerPosition", "enc.waitForInterrupt"}
        IsArm(o) == o[1] = "enc.setTriggerPosition"
        IsWait(o) == o[1] = "enc.waitForInterrupt"
        arms == SelectSeq(ops, IsArm)
        waits == SelectSeq(ops, IsWait)
        positions == arange(cfg.start, cfg.stop, cfg.step)
    IN /\ cfg.axis = "y" =>
             /\ enc_axis(cfg.axis) = << >>
             /\ \A i \in 1..Len(ops) : ops[i][1] \notin EncOps
             /\ afterFail \notin EncOps
             /\ enc = 0 /\ cmp = << >> /\ ~irq
       /\ (cfg.axis \in {"x", "z"} /\ pc = "record") =>
             /\ enc_axis(cfg.axis) # << >>
             /\ Len(arms) = Len(positions) - 1
             /\ Len(waits) = Len(positions) - 1
             /\ \A i \in 1..Len(arms) :
                   arms[i][2] * PosDen = positions[i + 1] * scale_factor(cfg.axis)

\* C13: an on-the-fly scan has returned after the fetch, with a comparator
\* wait for each of its positions after the first.
C13_Witness ==
    /\ pc = "record"
    /\ cfg.axis = "z"
    /\ Len(ops) > 0
    /\ ops[Len(ops)][1] = "hp.getField"
    /\ Len(SelectSeq(ops, LAMBDA o : o[1] = "enc.waitForInterrupt")) = NumIntervals

\* C14: Axis.move with wait returns normally only with the axis's actual
\* position within the tolerance of the target.
C14_MoveReturnsAsStated ==
    [][ (pc = "mv_poll" /\ pc' = cont) =>
           Abs(StepsToPos(mv.axis, act'[mv.axis]) - mv.final) <= mv.tol ]_vars

\* C15: setSpeed(None) sends max_speed * scale_factor; setSpeed(speed) with
\* speed above max_speed raises OutOfRangeException and sends nothing; with
\* speed up to max_speed it raises nothing and sends speed * scale_factor,
\* to the nearest integer.
C15_SetSpeedCommand ==
    LET a == call.in[1]
        sp == call.in[2]
        out == call.out
    IN (call.fn = "setSpeed" /\ call.done) =>
          IF sp = << >>
          THEN /\ out.raises = "none"
               /\ out.sent = << max_speed(a) * scale_factor(a) >>
          ELSE IF sp[1] > max_speed(a) * PosDen
          THEN /\ out.raises = "OutOfRangeException"
               /\ out.sent = << >>
          ELSE /\ out.raises = "none"
               /\ Len(out.sent) = 1
               /\ 2 * Abs(out.sent[1] * PosDen - sp[1] * scale_factor(a)) <= PosDen

\* C15: setSpeed was called with a speed above max_speed, raised
\* OutOfRangeException and sent nothing.
C15_Witness ==
    /\ call.fn = "setSpeed"
    /\ call.done
    /\ call.in[2] # << >>
    /\ call.out.raises = "OutOfRangeException"
    /\ call.out.sent = << >>

\* C16: a LineScan whose range yields no positions is rejected when it is
\* constructed: its run() is never entered and its axis never commanded.
C16_RejectedAsStated ==
    Len(arange(cfg.start, cfg.stop, cfg.step)) = 0 =>
        /\ ~InRun
        /\ tgt[cfg.axis] = 0
        /\ exc # "InputError"

\* C17: every attempt of run(), the first and each retry, starts from the
\* beginning: its first command is the homing move to start, waited for, its
\* second abortTrigger; once armed the probe is set for n_steps triggers and
\* holds nothing, the scan index is at the first position, and from then on
\* the probe holds the samples of this attempt only, one per position in
\* order; the rows run() returns are all of the attempt that returned.
C17_RetryFromStart ==
    LET n == Len(arange(cfg.start, cfg.stop, cfg.step))
        Armed == {"run_trig0", "run_setspeed", "run_getpos", "run_preload",
                  "otf_move", "otf_read", "otf_check", "otf_arm", "otf_wait",
                  "otf_trig", "otf_restore", "pbp_move", "pbp_trig", "run_fetch"}
        started == IF pc = "mv_poll" THEN cont ELSE pc
    IN /\ pc = "try_run" => idx = 0
       /\ (pc = "mv_poll" /\ cont = "run_abort") =>
             (mv.axis = cfg.axis /\ mv.final = cfg.start /\ Len(ops) = 1)
       /\ (InRun /\ pc # "try_run") =>
             /\ Len(ops) >= 1
             /\ ops[1] = <<"axis1.move", 0>>
             /\ Len(ops) >= 2 => ops[2][1] = "hp.abortTrigger"
       /\ pc = "run_trig0" =>
             (hpArmed /\ hpCount = n /\ hpBuf = << >> /\ nTrig = 0 /\ idx = 0)
       /\ started \in Armed =>
             \A i \in 1..Len(hpBuf) : hpBuf[i] = [k |-> i, fresh |-> TRUE]
       /\ pc = "record" => \A i \in 1..Len(field_values) : field_values[i].fresh

\* C17: on the first cell a retry has returned with a row for every position,
\* after an attempt that failed with samples taken.
C17_Witness ==
    /\ pc = "record"
    /\ cell = 1
    /\ retries > 0
    /\ nTrig = NumIntervals + 1
    /\ \A i \in 1..Len(field_values) : field_values[i].fresh

\* C18: the first attempt of a cell starts with the retry counter at 0,
\* whatever it was at the end of the cell before; an attempt starts only at
\* the start of a cell or after the counter was incremented; and while an
\* attempt is under way, and when it has returned, the counter equals the
\* number of attempts that failed on the cell.
C18_RetryCounter ==
    [][ /\ (pc = "cell_init" /\ pc' # pc) => (pc' = "try_run" /\ retries' = 0)
        /\ (pc' = "try_run" /\ pc # "try_run") =>
              \/ pc = "cell_init"
              \/ pc = "handler_count" /\ retries' = retries + 1
        /\ (pc' \in RunPcs \cup {"mv_poll", "record"} /\ pc' # "mv_poll") =>
              retries' = fails'
        /\ (pc' = "mv_poll" /\ cont' \in RunPcs) => retries' = fails' ]_vars

\* C18: the last cell is about to start while the counter still holds the
\* failures of the cell before.
C18_Witness ==
    /\ pc = "cell_init"
    /\ cell = NumCells
    /\ retries > 0

\* C19: the commands of a run() begin, in this order, with the homing move,
\* abortTrigger, setTriggerSource, setTriggerCount, armTrigger and the first
\* assert_trigger; abortTrigger is not sent while the homing move is waited
\* for; the count set is n_steps; and every further move command of the run
\* comes after the first trigger.
C19_RunOrder ==
    LET Order == << "axis1.move", "hp.abortTrigger", "hp.setTriggerSource",
                    "hp.setTriggerCount", "hp.armTrigger", "hp.assert_trigger" >>
        n == Len(arange(cfg.start, cfg.stop, cfg.step))
    IN /\ \A i \in 1..Len(ops) :
             /\ i <= Len(Order) => ops[i][1] = Order[i]
             /\ (i > 1 /\ ops[i][1] = "axis1.move") => i > Len(Order)
       /\ (pc = "mv_poll" /\ cont = "run_abort") => Len(ops) = 1
       /\ Len(ops) >= 4 => hpCount = n
       /\ Len(ops) >= 5 => nTrig = Len(SelectSeq(ops, LAMBDA o : o[1] = "hp.assert_trigger"))

\* C19: a point-by-point run() has commanded its first per-point move, its
\* seventh command.
C19_Witness ==
    /\ cfg.axis = "y"
    /\ Len(ops) >= 7
    /\ ops[7][1] = "axis1.move"
    /\ pc = "mv_poll"

\* C20: while a homing move of run() is under way the slew speed of the axis
\* is its max_speed.
C20_HomingSpeedAsStated ==
    (pc = "mv_poll" /\ cont = "run_abort") =>
        slew[cfg.axis] = max_speed(cfg.axis) * PosDen

\* C21: in an on-the-fly run() the targets are taken one at a time in the
\* order of pos_values: the k-th programming of the comparator carries the
\* step count of the k-th position after the first and comes after the
\* trigger of the position before; the next command after it is the interrupt
\* wait and the next after that assert_trigger; a wait always follows a
\* programming; and while the program waits the comparator holds the one
\* target programmed last.
C21_OneTargetAtATime ==
    LET positions == arange(cfg.start, cfg.stop, cfg.step)
        IsArm(o) == o[1] = "enc.setTriggerPosition"
        IsTrig(o) == o[1] = "hp.assert_trigger"
    IN /\ \A i \in 1..Len(ops) :
             /\ IsArm(ops[i]) =>
                   LET k == Len(SelectSeq(SubSeq(ops, 1, i), IsArm))
                   IN /\ k < Len(positions)
                      /\ ops[i][2] * PosDen = positions[k + 1] * scale_factor(cfg.axis)
                      /\ Len(SelectSeq(SubSeq(ops, 1, i), IsTrig)) = k
                      /\ i + 1 <= Len(ops) => ops[i + 1][1] = "enc.waitForInterrupt"
                      /\ i + 2 <= Len(ops) => ops[i + 2][1] = "hp.assert_trigger"
             /\ ops[i][1] = "enc.waitForInterrupt" => (i > 1 /\ IsArm(ops[i - 1]))
       /\ pc = "otf_wait" =>
             (IsArm(ops[Len(ops)]) /\ cmp = << ops[Len(ops)][2] >>)
       /\ pc = "otf_trig" => ops[Len(ops)][1] = "enc.waitForInterrupt"

\* C21: the interrupt wait for the last target of an on-the-fly scan has
\* returned, every target before it programmed, waited for and triggered.
C21_Witness ==
    /\ pc = "otf_trig"
    /\ idx = NumIntervals
    /\ nTrig = NumIntervals
    /\ Len(SelectSeq(ops, LAMBDA o : o[1] = "enc.setTriggerPosition")) = NumIntervals

\* C22: an on-the-fly run() preloads the encoder counter once, after its
\* homing move and before its continuous move is commanded, never after it;
\* and the value preloaded is the actual position of the motion axis in
\* steps.
C22_PreloadAsStated ==
    LET IsPre(o) == o[1] = "enc.setPosition"
        IsMove(o) == o[1] = "axis1.move"
    IN /\ Len(SelectSeq(ops, IsPre)) <= 1
       /\ \A i \in 1..Len(ops) :
             IsPre(ops[i]) => Len(SelectSeq(SubSeq(ops, 1, i), IsMove)) = 1
       /\ pc \in OtfPcs \cup {"otf_move"} => Len(SelectSeq(ops, IsPre)) = 1
       /\ pc = "otf_move" => enc = act[cfg.axis]

C24_DriverFailuresAsStated ==
    [][ (pc \in {"run_preload", "otf_read", "otf_arm", "otf_wait"} /\
         exc = "none" /\ exc' # "none") =>
           /\ exc' = "EncoderException"
           /\ pc' = "handler_stop" ]_vars

\* C25: Axis.move with wait returns only on a position reply that carries the
\* controller's command position, within the tolerance of the target; a
\* garbled reply never ends the wait.
C25_GarbledReplyAsStated ==
    [][ (pc = "mv_poll" /\ pc' = cont) =>
           Abs(StepsToPos(mv.axis, cmd[mv.axis]) - mv.final) <= mv.tol ]_vars

\* C26: the target of the continuous move of an on-the-fly scan lies strictly
\* beyond every position of pos_values[1:] in the direction of travel, as
\* positions and as the step counts sent for them on either on-the-fly axis.
C26_OvershootBeyondTargets ==
    LET dsign == IF call.in[2] >= call.in[1] THEN 1 ELSE -1
        out == call.out
    IN (call.fn = "overshoot" /\ call.done) =>
          \A i \in 1..Len(out.rest) :
             /\ dsign * (out.target - out.rest[i]) > 0
             /\ \A a \in {"x", "z"} :
                   dsign * (MoveSteps(a, out.target) * PosDen
                              - out.rest[i] * scale_factor(a)) > 0

\* C26: the continuous move of a descending scan with at least two positions
\* after the first has its target below all of them.
C26_Witness ==
    /\ call.fn = "overshoot"
    /\ call.done
    /\ call.in[2] < call.in[1]
    /\ Len(call.out.rest) >= 2
    /\ call.out.target < call.out.rest[Len(call.out.rest)]

\* C27: when the encoder position read equals the target exactly, the
\* missed-trigger check takes the same branch in an ascending and in a
\* descending scan.
C27_BoundaryAsStated ==
    (call.fn = "arm" /\ call.done /\ call.in[2] = call.in[3] * PosDen) =>
        call.out.missed = Missed(call.in[2], call.in[3], -call.in[1])

\* C28: when scanOnTheFly has completed, the last command before the fetch is
\* the setSpeed that restores max_speed, and the slew speed of the axis is
\* max_speed at the fetch and when run() has returned.
C28_SpeedRestored ==
    (on_the_fly(cfg.axis) /\ pc \in {"run_fetch", "record"}) =>
        /\ slew[cfg.axis] = max_speed(cfg.axis) * PosDen
        /\ pc = "run_fetch" => ops[Len(ops)][1] = "axis1.setSpeed"
        /\ pc = "record" => ops[Len(ops) - 1][1] = "axis1.setSpeed"

\* C28: an on-the-fly scan whose scan speed is below max_speed has triggered
\* at every position and is at the fetch, the speed back at max_speed.
C28_Witness ==
    /\ pc = "run_fetch"
    /\ cfg.axis = "z"
    /\ nTrig = NumIntervals + 1
    /\ ScanSpeed(cfg.axis, cfg.step) < max_speed(cfg.axis) * PosDen
    /\ slew[cfg.axis] = max_speed(cfg.axis) * PosDen

\* C29: the files change only by the record step of a cell whose run() has
\* returned, which adds the data of that cell after the data of the cells
\* before and leaves those as they were; the cells are taken in the order of
\* ax2_values, one at a time; the first attempt of a cell starts after the
\* move of the secondary axis to the cell's position has been waited for, and
\* run() leaves that axis where it is; a sweep that ends by an exception
\* writes nothing more, and holds no data of the cell that failed.
C29_ExportAfterSuccess ==
    [][ /\ exported' # exported =>
              /\ pc = "record" /\ fetched /\ exc = "none"
              /\ exported' = Append(exported, exported'[Len(exported')])
              /\ Len(exported') = cell
              /\ \A i \in 1..Len(exported'[cell]) :
                    exported'[cell][i] =
                       [y |-> ax2_values[cell], field |-> field_values[i].k]
        /\ cell' \in {cell, cell + 1}
        /\ cell' = cell + 1 => (pc = "record" /\ pc' = "cell_move")
        /\ pc' = "cell_init" =>
              /\ pc = "mv_poll" /\ mv.axis = axis2 /\ mv.final = ax2_values[cell]
              /\ tgt[axis2] = MoveSteps(axis2, ax2_values[cell])
        /\ (pc # "try_run" /\ pc' = "try_run" /\ retries' = 0) => pc = "cell_init"
        /\ InRun => tgt'[axis2] = tgt[axis2]
        /\ pc' = "crashed" => (exported' = exported /\ Len(exported') = cell' - 1) ]_vars

\* C29: the sweep has ended by the exception of the last cell, raised again
\* at the prompt, with the data of the cells before in the files.
C29_Witness ==
    /\ pc = "crashed"
    /\ cell = NumCells
    /\ answered # "none"
    /\ Len(exported) = NumCells - 1
    /\ Len(exported[1]) = NumIntervals + 1

\* C30: in a scan along the point-by-point axis the trigger of a position
\* after the first is reached only by the return of the waited move to that
\* position, the k-th such trigger after the move to the k-th position of
\* pos_values[1:]; the commands after the first trigger alternate between
\* move and assert_trigger; no setSpeed is among the commands of the run and
\* the slew speed stays as it was; and MissedTriggerError is never raised.
C30_PointByPoint ==
    [][ ~on_the_fly(cfg.axis) =>
          /\ (pc # "pbp_trig" /\ pc' = "pbp_trig") =>
                /\ pc = "mv_poll" /\ cont = "pbp_trig"
                /\ mv.axis = cfg.axis
                /\ mv.final = Rest(pos_values)[nTrig]
                /\ tgt[cfg.axis] = MoveSteps(cfg.axis, Rest(pos_values)[nTrig])
                /\ ops[Len(ops)][1] = "axis1.move"
          /\ \A i \in 1..Len(ops') :
                /\ ops'[i][1] # "axis1.setSpeed"
                /\ (i > 6 /\ ops'[i][1] = "hp.assert_trigger") =>
                      ops'[i - 1][1] = "axis1.move"
                /\ (i > 6 /\ ops'[i][1] = "axis1.move") =>
                      ops'[i - 1][1] = "hp.assert_trigger"
          /\ slew' = slew
          /\ exc' # "MissedTriggerError" ]_vars

\* C30: a point-by-point scan is at the trigger of its last position, the
\* positions before it triggered.
C30_Witness ==
    /\ cfg.axis = "y"
    /\ pc = "pbp_trig"
    /\ idx = NumIntervals
    /\ nTrig = NumIntervals
    /\ tgt[cfg.axis] = MoveSteps(cfg.axis, cfg.stop)

\* C31: a LineScan constructed for an on-the-fly axis takes the encoder
\* channel of that axis: the x channel for 'x', the z channel for 'z'.
C31_ChannelAsStated ==
    (call.fn = "construct" /\ call.done /\ call.in[1] \in {"x", "z"}) =>
        call.out = << call.in[1] >>

\* C32: the step count Axis.move sends for a position is
\* round(position * scale_factor), the nearest integer, for positions of
\* either sign.
C32_MoveStepsAsStated ==
    (call.fn = "move" /\ call.done) =>
        /\ call.out = RoundHalfEven(call.in[2] * scale_factor(call.in[1]), PosDen)
        /\ 2 * Abs(call.out * PosDen - call.in[2] * scale_factor(call.in[1])) <= PosDen

====
